---- MODULE Spec2Model ----
(***************************************************************************)
(* Model of the Public Donation Inventory console application              *)
(* (src/PublicDonationInventory): the sqlite store (users, one table per   *)
(* item type, transactions), the account operations of UserManager, the    *)
(* borrow/return ledger of TransactionManager and the menu loop of main(). *)
(*                                                                         *)
(* Text is a sequence of one-character strings, so that strip(), lower()   *)
(* and SQL LIKE are computed rather than assumed.  A calendar date is the  *)
(* number of its day: strftime("%Y-%m-%d") is an order-preserving,         *)
(* injective rendering of that number.                                     *)
(***************************************************************************)
EXTENDS Integers, Sequences, FiniteSets, TLC

VARIABLES
    users,          \* table users: sequence of rows [user_name, password]
    tables,         \* one table per item type: cls_item_type -> sequence of rows
    transactions,   \* table transactions: sequence of rows
    today,          \* the day datetime.now() falls on
    pc,             \* where main() is: "top", "menu", "add", "select_...", "done"
    user_name,      \* UserManager.user_name / TransactionManager.user_name
    password,       \* UserManager.password
    out,            \* the last message printed: [op, msg, args]
    borrowing       \* per process, what a borrow_item call in progress has read

vars == <<users, tables, transactions, today, pc, user_name, password, out, borrowing>>

-----------------------------------------------------------------------------
(* Bounds of the model.                                                    *)

MaxTx == 2          \* rows the transactions table may hold
MaxItems == 1       \* rows all item tables together may hold
MaxDay == 2         \* last day the clock reaches

\* what the user may type at the prompts that every specification shares
TopChoices == {"1", "2", "3", "4", "x"}
MenuChoices == {"1", "2", "3", "4", "6", "9"}
BorrowChoices == {<<"Y", "e", "s">>, <<"y", " ">>, <<"n", "o">>}
NameInputs == {<<"D">>, <<" ">>}
OtherInputs == {<<"x">>}
DateInputs == {<<>>}

\* The rest of what is typed, and whether midnight may pass, is a profile: each
\* specification below runs the same actions on its own profile, wide where its
\* claims look and narrow elsewhere.
LedgerInputs ==
    [user_names |-> {"alice", "bob"},
     passwords |-> {"p"},
     salts |-> {"s1"},
     item_type_choices |-> {"1", "7", "8", "x"},
     typed_categories |-> {<<"N", "o", "v", "e", "l">>},
     search_words |-> {<<>>, <<"z">>},
     item_ids |-> {1},
     transaction_ids |-> 1..(MaxTx + 1),
     midnight |-> {FALSE},
     max_items |-> MaxItems,
     max_tx |-> MaxTx,
     name_inputs |-> NameInputs,
     date_inputs |-> DateInputs]

AuthInputs ==
    [user_names |-> {"alice", "bob"},
     passwords |-> {"p", "q"},
     salts |-> {"s1", "s2"},
     item_type_choices |-> {"1", "01", "8", "9"},
     typed_categories |-> {<<"N", "o", "v", "e", "l">>},
     search_words |-> {<<"d">>},
     item_ids |-> {1},
     transaction_ids |-> {1},
     midnight |-> {FALSE},
     max_items |-> MaxItems,
     max_tx |-> MaxTx,
     name_inputs |-> NameInputs,
     date_inputs |-> DateInputs]

ClockInputs ==
    [user_names |-> {"alice", "bob"},
     passwords |-> {"p"},
     salts |-> {"s1"},
     item_type_choices |-> {"1", "8", "x"},
     typed_categories |-> {<<"N", "o", "v", "e", "l">>},
     search_words |-> {<<"d">>},
     item_ids |-> {1},
     transaction_ids |-> 1..MaxTx,
     midnight |-> {FALSE, TRUE},
     max_items |-> MaxItems,
     max_tx |-> MaxTx,
     name_inputs |-> NameInputs,
     date_inputs |-> DateInputs]

\* two runs of the program at once on the same library.db: peer_user_names are the
\* users of the second one
RaceInputs ==
    [user_names |-> {"alice"},
     peer_user_names |-> {"bob"},
     passwords |-> {"p"},
     salts |-> {"s1"},
     item_type_choices |-> {"1", "8", "x"},
     typed_categories |-> {<<"N", "o", "v", "e", "l">>},
     search_words |-> {<<>>, <<"z">>},
     item_ids |-> {1},
     transaction_ids |-> 1..MaxTx,
     midnight |-> {FALSE},
     max_items |-> MaxItems,
     max_tx |-> MaxTx,
     name_inputs |-> NameInputs,
     date_inputs |-> DateInputs]

\* adding items: names with blanks around them, dates in and out of the format
AddInputs ==
    [user_names |-> {"alice"},
     passwords |-> {"p"},
     salts |-> {"s1"},
     item_type_choices |-> {"1", "2", "3", "6", "8", "x"},
     typed_categories |-> {<<"N", "o", "v", "e", "l">>},
     search_words |-> {<<>>},
     item_ids |-> {1},
     transaction_ids |-> {1},
     midnight |-> {FALSE},
     max_items |-> MaxItems,
     max_tx |-> MaxTx - 1,
     name_inputs |-> {<<"D">>, <<" ">>, <<>>, <<" ", "D", " ">>},
     date_inputs |-> {<<>>,
                      <<" ">>,
                      <<"2", "0", "2", "4", "-", "0", "2", "-", "2", "9">>,
                      <<"2", "0", "1", "4", "-", "1", "-", "5">>,
                      <<"2", "0", "1", "4", "-", "1", "2", "-", " ", "4">>,
                      <<"2", "0", "1", "4", "-", "0", "2", "-", "3", "0">>,
                      <<"1", "4", "-", "1", "2", "-", "2", "0", "1", "4">>,
                      <<" ", "2", "0", "1", "4", "-", "1", "2", "-", "1", "4">>,
                      <<"x">>}]

\* the store fails: the errors sqlite3 raises for a statement (a locked or
\* unreadable database file), and typed ids at the end of the INTEGER range
FaultInputs ==
    [user_names |-> {"alice"},
     passwords |-> {"p", "q"},
     salts |-> {"s1"},
     item_type_choices |-> {"1", "8", "x"},
     typed_categories |-> {<<"N", "o", "v", "e", "l">>},
     search_words |-> {<<>>},
     item_ids |-> {1},
     transaction_ids |-> 1..MaxTx,
     midnight |-> {FALSE},
     max_items |-> MaxItems,
     max_tx |-> MaxTx,
     name_inputs |-> NameInputs,
     date_inputs |-> DateInputs,
     read_errors |-> {"sqlite3.OperationalError"},
     write_errors |-> {"sqlite3.OperationalError"},
     large_ids |-> {<<"9", "2", "2", "3", "3", "7", "2", "0", "3", "6",
                      "8", "5", "4", "7", "7", "5", "8", "0", "7">>,
                    <<"9", "2", "2", "3", "3", "7", "2", "0", "3", "6",
                      "8", "5", "4", "7", "7", "5", "8", "0", "8">>}]

\* the queries: a user_name with a quote in it, search words with the wildcards of
\* LIKE, a second item
InventoryChoices == {"1", "2", "3", "x"}

QueryInputs ==
    [user_names |-> {"alice", "o'b"},
     passwords |-> {"p"},
     salts |-> {"s1"},
     item_type_choices |-> {"1", "4", "7", "x"},
     typed_categories |-> {<<"N", "o", "v", "e", "l">>},
     search_words |-> {<<>>, <<"d">>, <<"_">>},
     item_ids |-> {1},
     transaction_ids |-> {1},
     midnight |-> {FALSE},
     max_items |-> MaxItems + 1,
     max_tx |-> MaxTx - 1,
     name_inputs |-> NameInputs,
     date_inputs |-> DateInputs]

-----------------------------------------------------------------------------
(* Text helpers (Python str methods, SQLite LIKE).                         *)

NULL == <<"<null>">>

LowerChar(c) ==
    CASE c = "B" -> "b"
      [] c = "D" -> "d"
      [] c = "N" -> "n"
      [] c = "Y" -> "y"
      [] OTHER -> c

lower(s) == [i \in 1..Len(s) |-> LowerChar(s[i])]

RECURSIVE lstrip(_)
lstrip(s) == IF s # <<>> /\ Head(s) = " " THEN lstrip(Tail(s)) ELSE s

RECURSIVE rstrip(_)
rstrip(s) ==
    IF s # <<>> /\ s[Len(s)] = " " THEN rstrip(SubSeq(s, 1, Len(s) - 1)) ELSE s

strip(s) == rstrip(lstrip(s))

\* SQLite LIKE: % matches any run, _ any one character, letters fold case
RECURSIVE LikeMatch(_, _)
LikeMatch(pat, s) ==
    IF pat = <<>> THEN s = <<>>
    ELSE IF Head(pat) = "%"
         THEN LikeMatch(Tail(pat), s) \/ (s # <<>> /\ LikeMatch(pat, Tail(s)))
         ELSE /\ s # <<>>
              /\ (Head(pat) = "_" \/ LowerChar(Head(pat)) = LowerChar(Head(s)))
              /\ LikeMatch(Tail(pat), Tail(s))

\* field LIKE ? with the parameter '%' + search_word + '%'; NULL LIKE x is not true
Like(value, search_word) ==
    value # NULL /\ LikeMatch(<<"%">> \o search_word \o <<"%">>, value)

\* Python: the text of a category name as the string the code compares
TextOf(name) ==
    CASE name = "book" -> <<"b", "o", "o", "k">>
      [] name = "magazine" -> <<"m", "a", "g", "a", "z", "i", "n", "e">>
      [] name = "journal" -> <<"j", "o", "u", "r", "n", "a", "l">>
      [] name = "manga" -> <<"m", "a", "n", "g", "a">>
      [] name = "western_comic" ->
            <<"w", "e", "s", "t", "e", "r", "n", "_", "c", "o", "m", "i", "c">>
      [] name = "research_paper" ->
            <<"r", "e", "s", "e", "a", "r", "c", "h", "_", "p", "a", "p", "e", "r">>

\* Python: a user_name as the str the f-strings of the queries interpolate
UserText(u) ==
    CASE u = "alice" -> <<"a", "l", "i", "c", "e">>
      [] u = "bob" -> <<"b", "o", "b">>
      [] u = "o'b" -> <<"o", "'", "b">>
      [] OTHER -> <<>>

\* SQL: the string literal that  '<text>'  is read as.  Two quotes in a row are
\* one quote of the literal; a single quote ends the literal, and what follows
\* it is read as SQL (for every user_name typed here that is a syntax error)
RECURSIVE SqlLiteral(_)
SqlLiteral(text) ==
    IF text = <<>> THEN [error |-> FALSE, value |-> <<>>]
    ELSE IF Head(text) # "'"
         THEN LET rest == SqlLiteral(Tail(text))
              IN [error |-> rest.error, value |-> <<Head(text)>> \o rest.value]
         ELSE IF Len(text) >= 2 /\ text[2] = "'"
              THEN LET rest == SqlLiteral(Tail(Tail(text)))
                   IN [error |-> rest.error, value |-> <<"'">> \o rest.value]
              ELSE [error |-> TRUE, value |-> <<>>]

isdigit(s) == s \in {"1", "01", "2", "3", "4", "6", "7", "8", "9"}

int(s) ==
    CASE s \in {"1", "01"} -> 1
      [] s = "2" -> 2
      [] s = "3" -> 3
      [] s = "4" -> 4
      [] s = "6" -> 6
      [] s = "7" -> 7
      [] s = "8" -> 8
      [] s = "9" -> 9

str(n) ==
    CASE n = 1 -> "1"
      [] n = 2 -> "2"
      [] n = 3 -> "3"
      [] n = 4 -> "4"
      [] n = 6 -> "6"
      [] n = 7 -> "7"
      [] n = 8 -> "8"
      [] n = 9 -> "9"

-----------------------------------------------------------------------------
(* The item types (inventory.py) and their registry (main.py).             *)

Book == [cls_item_type |-> "book",
         fields |-> <<"name", "author", "genre", "date">>]
Magazine == [cls_item_type |-> "magazine",
             fields |-> <<"name", "publisher", "genre", "date">>]
Journal == [cls_item_type |-> "journal",
            fields |-> <<"name", "author", "journal_name", "volume", "issue", "format">>]
Manga == [cls_item_type |-> "manga",
          fields |-> <<"name", "author", "publisher", "format">>]
WesternComic == [cls_item_type |-> "western_comic",
                 fields |-> <<"name", "author", "publisher", "format">>]
ResearchPaper == [cls_item_type |-> "research_paper",
                  fields |-> <<"name", "author", "journal_name", "abstract",
                               "keywords", "date">>]

item_types ==
    ("1" :> Book) @@ ("2" :> Magazine) @@ ("3" :> Journal) @@
    ("4" :> Manga) @@ ("5" :> WesternComic) @@ ("6" :> ResearchPaper)

\* the registry's keys in the order the dict holds them
item_type_keys == <<"1", "2", "3", "4", "5", "6">>

TableNames == {item_types[k].cls_item_type : k \in DOMAIN item_types}

SeqToSet(s) == {s[i] : i \in 1..Len(s)}

-----------------------------------------------------------------------------
(* DBManager: the store.                                                   *)

RECURSIVE MaxOf(_)
MaxOf(S) ==
    IF S = {} THEN 0
    ELSE LET x == CHOOSE y \in S : TRUE
             m == MaxOf(S \ {x})
         IN IF x > m THEN x ELSE m

\* id INTEGER PRIMARY KEY AUTOINCREMENT: one more than the largest id the table had
\* (no statement of the program deletes a row)
NextRowId(rows) == MaxOf({rows[i].id : i \in 1..Len(rows)}) + 1

\* SELECT ... WHERE: the rows that satisfy Test, in storage order
Select(rows, Test(_)) == SelectSeq(rows, Test)

\* DBManager.execute: error is what cursor.execute raised for the statement
\* ("none": it ran, and commit() made `after` the store); any error is raised
\* again, and the statement that raised has changed nothing
execute(before, after, error) ==
    IF error = "none" THEN [raised |-> FALSE, store |-> after]
    ELSE [raised |-> TRUE, store |-> before]

\* mutant: fetchall raises what the query raised, as execute does
fetchall_Propagates(rows, error) ==
    IF error = "none" THEN [raised |-> FALSE, rows |-> rows]
    ELSE [raised |-> TRUE, rows |-> <<>>]

\* DBManager.fetchall: error is what cursor.execute raised for the query; only
\* an sqlite3.Error is caught (and [] returned), anything else goes to the caller
fetchall(rows, error) ==
    IF error = "none" THEN [raised |-> FALSE, rows |-> rows]
    ELSE IF error \in {"sqlite3.OperationalError", "sqlite3.IntegrityError"}
         THEN [raised |-> FALSE, rows |-> <<>>]
         ELSE [raised |-> TRUE, rows |-> <<>>]

\* the value of a decimal digit
DigitValue(c) ==
    CASE c = "0" -> 0 [] c = "1" -> 1 [] c = "2" -> 2 [] c = "3" -> 3 [] c = "4" -> 4
      [] c = "5" -> 5 [] c = "6" -> 6 [] c = "7" -> 7 [] c = "8" -> 8 [] c = "9" -> 9

\* int(text) as its decimal digits, without leading zeros
RECURSIVE Digits(_)
Digits(text) ==
    IF Len(text) > 1 /\ Head(text) = "0" THEN Digits(Tail(text)) ELSE text

\* 2^63 - 1, the largest value an SQLite INTEGER holds
MaxSqliteInteger ==
    <<"9", "2", "2", "3", "3", "7", "2", "0", "3", "6",
      "8", "5", "4", "7", "7", "5", "8", "0", "7">>

\* a <= b for two numbers given by their digits
RECURSIVE DigitsLeq(_, _)
DigitsLeq(a, b) ==
    IF Len(a) # Len(b) THEN Len(a) < Len(b)
    ELSE IF a = <<>> THEN TRUE
         ELSE IF Head(a) # Head(b) THEN DigitValue(Head(a)) < DigitValue(Head(b))
              ELSE DigitsLeq(Tail(a), Tail(b))

\* what binding the int of the typed text to a ? raises
BindError(text) ==
    IF DigitsLeq(Digits(text), MaxSqliteInteger) THEN "none" ELSE "OverflowError"

AllDigits(text) ==
    \A i \in 1..Len(text) :
        text[i] \in {"0", "1", "2", "3", "4", "5", "6", "7", "8", "9"}

\* the number a text of digits reads as
RECURSIVE NumberOf(_)
NumberOf(digits) ==
    IF digits = <<>> THEN 0
    ELSE 10 * NumberOf(SubSeq(digits, 1, Len(digits) - 1))
            + DigitValue(digits[Len(digits)])

DigitChar(n) == CHOOSE c \in {"0", "1", "2", "3", "4", "5", "6", "7", "8", "9"} :
                    DigitValue(c) = n

\* n in decimal, zero-padded to width digits
RECURSIVE Padded(_, _)
Padded(n, width) ==
    IF width = 0 THEN <<>>
    ELSE Append(Padded(n \div 10, width - 1), DigitChar(n % 10))

IsLeapYear(y) == (y % 4 = 0 /\ y % 100 # 0) \/ y % 400 = 0

DaysInMonth(y, m) ==
    IF m = 2 THEN (IF IsLeapYear(y) THEN 29 ELSE 28)
    ELSE IF m \in {4, 6, 9, 11} THEN 30 ELSE 31

\* datetime.strptime(text, "%Y-%m-%d").date(): %Y is four digits, %m one or two
\* digits from 1 to 12, %d one or two digits from 1 to 31 or a blank and a digit;
\* a text of another shape, or a day the month does not have, is a ValueError
strptime(text) ==
    LET dashes == {i \in 1..Len(text) : text[i] = "-"}
        i == CHOOSE a \in dashes : \A b \in dashes : a <= b
        j == CHOOSE a \in dashes : \A b \in dashes : a >= b
        Y == SubSeq(text, 1, i - 1)
        M == SubSeq(text, i + 1, j - 1)
        D0 == SubSeq(text, j + 1, Len(text))
        D == IF Len(D0) = 2 /\ D0[1] = " " THEN Tail(D0) ELSE D0
        y == NumberOf(Y)
        m == NumberOf(M)
        d == NumberOf(D)
    IN IF /\ Cardinality(dashes) = 2
          /\ Len(Y) = 4 /\ AllDigits(Y)
          /\ Len(M) \in {1, 2} /\ AllDigits(M)
          /\ Len(D) \in {1, 2} /\ AllDigits(D)
          /\ (Len(D0) = 2 /\ D0[1] = " ") => D[1] # "0"
          /\ y >= 1
          /\ m \in 1..12
          /\ d >= 1 /\ d <= DaysInMonth(y, m)
       THEN [ValueError |-> FALSE, year |-> y, month |-> m, day |-> d]
       ELSE [ValueError |-> TRUE, year |-> 0, month |-> 0, day |-> 0]

\* date.isoformat(), the text sqlite3 stores for a date
isoformat(date) ==
    Padded(date.year, 4) \o <<"-">> \o Padded(date.month, 2) \o <<"-">>
        \o Padded(date.day, 2)

\* mutant: the table has no primary key
InsertUser_NoPrimaryKey(tbl, u, hashed) ==
    [raised |-> FALSE, rows |-> Append(tbl, [user_name |-> u, password |-> hashed])]

\* INSERT INTO users: user_name is the PRIMARY KEY, a second row with the same
\* user_name is a constraint violation, which execute() raises
InsertUser(tbl, u, hashed) ==
    LET r == execute(tbl, Append(tbl, [user_name |-> u, password |-> hashed]),
                     IF \E i \in 1..Len(tbl) : tbl[i].user_name = u
                     THEN "sqlite3.IntegrityError" ELSE "none")
    IN [raised |-> r.raised, rows |-> r.store]

-----------------------------------------------------------------------------
(* UserManager: register and login.                                        *)

\* bcrypt.hashpw(pw, salt): the salt travels with the digest; the digest
\* is a function of salt and pw that no other pair produces
hashpw(pw, salt) == [salt |-> salt, digest |-> <<salt, pw>>]

\* bcrypt.checkpw(pw, hashed): re-hash with the stored salt and compare
checkpw(pw, hashed) == hashpw(pw, hashed.salt) = hashed

\* UserManager.register with the salt gensalt() drew
register(tbl, u, p, salt) == InsertUser(tbl, u, hashpw(p, salt))

\* mutant: the SELECT has no WHERE user_name = ?
login_AnyRow(tbl, u, p) == tbl # <<>> /\ checkpw(p, tbl[1].password)

\* UserManager.login: the stored hash of the first row found, if any
login(tbl, u, p) ==
    LET user == Select(tbl, LAMBDA r : r.user_name = u)
    IN user # <<>> /\ checkpw(p, user[1].password)

-----------------------------------------------------------------------------
(* TransactionManager: the ledger.                                         *)

borrow_duration_days == 7

ActiveBorrows(txs, item_type, item_id) ==
    Select(txs, LAMBDA t : t.item_id = item_id /\ t.item_type = item_type
                           /\ t.status = "borrowed")

NewBorrow(txs, u, item_type, item_id, days, now1, now2) ==
    [id |-> NextRowId(txs),
     user_name |-> u,
     item_type |-> item_type,
     item_id |-> item_id,
     borrow_date |-> now1,
     due_date |-> now2 + days,
     return_date |-> <<>>,
     status |-> "borrowed"]

\* mutant: the availability test is left out
borrow_item_Unchecked(txs, u, item_type, item_id, days, now1, now2) ==
    [transactions |-> Append(txs, NewBorrow(txs, u, item_type, item_id, days, now1, now2)),
     msg |-> "borrowed_successfully"]

\* mutant: the availability test looks only at the rows of other users
borrow_item_OthersOnly(txs, u, item_type, item_id, days, now1, now2) ==
    IF SelectSeq(ActiveBorrows(txs, item_type, item_id), LAMBDA t : t.user_name # u) # <<>>
    THEN [transactions |-> txs, msg |-> "currently_borrowed"]
    ELSE [transactions |->
              Append(txs, NewBorrow(txs, u, item_type, item_id, days, now1, now2)),
          msg |-> "borrowed_successfully"]

\* mutant: an item with a returned row has that row reopened instead of a new one
borrow_item_Reopen(txs, u, item_type, item_id, days, now1, now2) ==
    IF ActiveBorrows(txs, item_type, item_id) # <<>>
    THEN [transactions |-> txs, msg |-> "currently_borrowed"]
    ELSE IF \E i \in 1..Len(txs) :
                txs[i].item_type = item_type /\ txs[i].item_id = item_id
         THEN [transactions |->
                  [i \in 1..Len(txs) |->
                      IF txs[i].item_type = item_type /\ txs[i].item_id = item_id
                      THEN [txs[i] EXCEPT !.status = "borrowed", !.user_name = u,
                                          !.return_date = <<>>]
                      ELSE txs[i]],
               msg |-> "borrowed_successfully"]
         ELSE [transactions |->
                  Append(txs, NewBorrow(txs, u, item_type, item_id, days, now1, now2)),
               msg |-> "borrowed_successfully"]

\* mutant: the INSERT is guarded by the ledger as it is when the INSERT runs
borrow_item_insert_Transactional(active_borrows, txs, u, item_type, item_id, days, now1, now2) ==
    IF ActiveBorrows(txs, item_type, item_id) # <<>>
    THEN [transactions |-> txs, msg |-> "currently_borrowed"]
    ELSE [transactions |->
              Append(txs, NewBorrow(txs, u, item_type, item_id, days, now1, now2)),
          msg |-> "borrowed_successfully"]

\* borrow_item from `if active_borrows:` on: active_borrows is what the SELECT
\* returned, txs the ledger the INSERT runs on
borrow_item_insert(active_borrows, txs, u, item_type, item_id, days, now1, now2) ==
    IF active_borrows # <<>>
    THEN [transactions |-> txs, msg |-> "currently_borrowed"]
    ELSE [transactions |->
              Append(txs, NewBorrow(txs, u, item_type, item_id, days, now1, now2)),
          msg |-> "borrowed_successfully"]

\* borrow_item with no other process between its SELECT and its INSERT; now1 and
\* now2 are the days of its two datetime.now() reads
borrow_item(txs, u, item_type, item_id, days, now1, now2) ==
    borrow_item_insert(ActiveBorrows(txs, item_type, item_id), txs, u, item_type,
                       item_id, days, now1, now2)

\* mutant: the UPDATE has no WHERE clause
UpdateReturned_NoWhere(txs, transaction_id, return_date) ==
    [i \in 1..Len(txs) |->
        [txs[i] EXCEPT !.return_date = <<return_date>>, !.status = "returned"]]

\* UPDATE transactions SET return_date = ?, status = 'returned' WHERE id = ?
UpdateReturned(txs, transaction_id, return_date) ==
    [i \in 1..Len(txs) |->
        IF txs[i].id = transaction_id
        THEN [txs[i] EXCEPT !.return_date = <<return_date>>, !.status = "returned"]
        ELSE txs[i]]

\* mutant: the lookup does not test user_name
return_item_AnyUser(txs, u, transaction_id, now) ==
    LET transaction ==
            Select(txs, LAMBDA t : t.id = transaction_id /\ t.status = "borrowed")
    IN IF transaction = <<>>
       THEN [transactions |-> txs, msg |-> "no_active_borrow"]
       ELSE [transactions |->
                [i \in 1..Len(txs) |->
                    IF txs[i].id = transaction_id
                    THEN [txs[i] EXCEPT !.return_date = <<now>>, !.status = "returned"]
                    ELSE txs[i]],
             msg |-> "returned_successfully"]

\* mutant: the lookup does not test status
return_item_AnyStatus(txs, u, transaction_id, now) ==
    LET transaction ==
            Select(txs, LAMBDA t : t.id = transaction_id /\ t.user_name = u)
    IN IF transaction = <<>>
       THEN [transactions |-> txs, msg |-> "no_active_borrow"]
       ELSE [transactions |->
                [i \in 1..Len(txs) |->
                    IF txs[i].id = transaction_id
                    THEN [txs[i] EXCEPT !.return_date = <<now>>, !.status = "returned"]
                    ELSE txs[i]],
             msg |-> "returned_successfully"]

return_item(txs, u, transaction_id, now) ==
    LET transaction ==
            Select(txs, LAMBDA t : t.id = transaction_id /\ t.user_name = u
                                   /\ t.status = "borrowed")
    IN IF transaction = <<>>
       THEN [transactions |-> txs, msg |-> "no_active_borrow"]
       ELSE [transactions |-> UpdateReturned(txs, transaction_id, now),
             msg |-> "returned_successfully"]

-----------------------------------------------------------------------------
(* Inventory: reading the fields of a new item and storing it.             *)

\* get_fields / get_date_with_fields: `"name" in field` holds for name and journal_name
IsNameField(field) == field \in {"name", "journal_name"}

IsDateField(field) == field = "date"

\* the item types whose get_fields is get_date_with_fields
HasDatePrompt(T) == T.cls_item_type \in {"book", "magazine", "research_paper"}

\* mutant: whatever is typed is kept
FieldAccepted_Anything(T, field, typed) == TRUE

\* whether get_fields keeps what was typed for a field: a name that is empty after
\* strip(), and a date that strptime raises ValueError for, are asked for again
FieldAccepted(T, field, typed) ==
    IF IsNameField(field) THEN strip(typed) # <<>>
    ELSE IF HasDatePrompt(T) /\ IsDateField(field)
         THEN strip(typed) # <<>> => ~strptime(typed).ValueError
         ELSE TRUE

\* the value get_fields keeps, as the text the INSERT stores for it
FieldValue(T, field, typed) ==
    IF IsNameField(field) THEN typed
    ELSE IF HasDatePrompt(T) /\ IsDateField(field)
         THEN IF strip(typed) # <<>>
              THEN (IF strptime(typed).ValueError THEN typed
                    ELSE isoformat(strptime(typed)))
              ELSE NULL
         ELSE typed

\* what may be typed at the prompt of a field
FieldInputs(I, T, field) ==
    IF IsNameField(field) THEN I.name_inputs
    ELSE IF HasDatePrompt(T) /\ IsDateField(field) THEN I.date_inputs
         ELSE OtherInputs

\* one input per prompt, for the first n fields of the item type
RECURSIVE TypedUpTo(_, _, _)
TypedUpTo(I, T, n) ==
    IF n = 0 THEN {<<>>}
    ELSE {Append(typed, v) : typed \in TypedUpTo(I, T, n - 1),
                             v \in FieldInputs(I, T, T.fields[n])}

TypedFields(I, T) == TypedUpTo(I, T, Len(T.fields))

\* add_to_inventory: INSERT INTO <table> (<fields>, user_name) VALUES (...)
add_to_inventory(tbls, T, typed, u) ==
    LET rows == tbls[T.cls_item_type]
        vals == [i \in 1..Len(T.fields) |-> FieldValue(T, T.fields[i], typed[i])]
    IN [tbls EXCEPT ![T.cls_item_type] =
            Append(rows, [id |-> NextRowId(rows), vals |-> vals, user_name |-> u])]

ItemCount(tbls) ==
    LET RECURSIVE Sum(_)
        Sum(i) == IF i = 0 THEN 0
                  ELSE Len(tbls[item_types[item_type_keys[i]].cls_item_type]) + Sum(i - 1)
    IN Sum(Len(item_type_keys))

-----------------------------------------------------------------------------
(* TransactionManager: the queries.                                        *)

\* mutant: of the occurrences of an element the last one is kept
RECURSIVE Dedup_KeepLast(_)
Dedup_KeepLast(s) ==
    IF s = <<>> THEN <<>>
    ELSE IF Head(s) \in SeqToSet(Tail(s)) THEN Dedup_KeepLast(Tail(s))
         ELSE <<Head(s)>> \o Dedup_KeepLast(Tail(s))

\* list(OrderedSet(s))
RECURSIVE Dedup(_)
Dedup(s) ==
    IF s = <<>> THEN <<>>
    ELSE LET r == Dedup(SubSeq(s, 1, Len(s) - 1))
         IN IF s[Len(s)] \in SeqToSet(r) THEN r ELSE Append(r, s[Len(s)])

RECURSIVE AllFields(_)
AllFields(n) ==
    IF n = 0 THEN <<>>
    ELSE AllFields(n - 1) \o item_types[item_type_keys[n]].fields

\* common_columns = list(OrderedSet(<every fields list, in registry order>))
common_columns == Dedup(AllFields(Len(item_type_keys)))

IndexOf(seq, x) == CHOOSE i \in 1..Len(seq) : seq[i] = x

\* "<field> AS <field>" for a field of T, "NULL AS <field>" for any other column
Project(T, vals) ==
    [i \in 1..Len(common_columns) |->
        IF common_columns[i] \in SeqToSet(T.fields)
        THEN vals[IndexOf(T.fields, common_columns[i])]
        ELSE NULL]

\* <f1> LIKE ? OR <f2> LIKE ? OR ...
LikeAny(vals, search_word) == \E i \in 1..Len(vals) : Like(vals[i], search_word)

\* SELECT '<table>' as Category, * FROM <table> WHERE <like clauses>
search_with_auto_complete(tbls, T, search_word) ==
    LET hit == Select(tbls[T.cls_item_type], LAMBDA r : LikeAny(r.vals, search_word))
    IN [columns |-> <<"Category", "id">> \o T.fields,
        results |-> [i \in 1..Len(hit) |->
                        <<T.cls_item_type, hit[i].id>> \o hit[i].vals
                            \o <<hit[i].user_name>>]]

\* the UNION of one SELECT per item type over the common columns
search_for_every_item_type(tbls, search_word) ==
    [columns |-> <<"Category", "id">> \o common_columns,
     results |->
        UNION {
            LET T == item_types[k]
                hit == Select(tbls[T.cls_item_type],
                              LAMBDA r : LikeAny(r.vals, search_word))
            IN {<<T.cls_item_type, hit[i].id>> \o Project(T, hit[i].vals) :
                    i \in 1..Len(hit)}
            : k \in DOMAIN item_types}]

ItemById(rows, id) == Select(rows, LAMBDA r : r.id = id)

\* transactions t JOIN <table> i ON t.item_id = i.id WHERE t.user_name = ? AND
\* t.item_type = '<table>' AND t.status = 'borrowed' AND f1 LIKE ? OR f2 LIKE ? ...
\* (AND binds tighter than OR: only the first LIKE is tied to the other tests)
get_borrowed_given_item(tbls, txs, T, u, search_word) ==
    LET rows == tbls[T.cls_item_type]
        Where(t) ==
            LET i == ItemById(rows, t.item_id)
            IN /\ i # <<>>
               /\ \/ /\ t.user_name = u
                     /\ t.item_type = TextOf(T.cls_item_type)
                     /\ t.status = "borrowed"
                     /\ Like(i[1].vals[1], search_word)
                  \/ \E f \in 2..Len(T.fields) : Like(i[1].vals[f], search_word)
        hit == Select(txs, Where)
    IN [columns |-> <<"TransactionId", "id">> \o T.fields,
        results |-> [n \in 1..Len(hit) |->
                        LET i == ItemById(rows, hit[n].item_id)[1]
                        IN <<hit[n].id, i.id>> \o i.vals \o <<i.user_name>>]]

\* one sub-select of get_transaction_history, for the item type T; the user_name
\* is interpolated into  t.user_name = '<user_name>'
HistoryOf(tbls, txs, T, u, is_active) ==
    LET rows == tbls[T.cls_item_type]
        hit == Select(txs, LAMBDA t :
                    /\ ItemById(rows, t.item_id) # <<>>
                    /\ t.item_type = TextOf(T.cls_item_type)
                    /\ UserText(t.user_name) = SqlLiteral(UserText(u)).value
                    /\ (is_active => t.status = "borrowed"))
    IN [n \in 1..Len(hit) |->
            [Category |-> T.cls_item_type,
             TransactionId |-> hit[n].id,
             item |-> Project(T, ItemById(rows, hit[n].item_id)[1].vals),
             borrow_date |-> hit[n].borrow_date,
             due_date |-> hit[n].due_date,
             return_date |-> hit[n].return_date,
             status |-> hit[n].status,
             user_name |-> hit[n].user_name]]

RECURSIVE HistoryUnionAll(_, _, _, _, _)
HistoryUnionAll(tbls, txs, u, is_active, n) ==
    IF n = 0 THEN <<>>
    ELSE HistoryUnionAll(tbls, txs, u, is_active, n - 1)
            \o HistoryOf(tbls, txs, item_types[item_type_keys[n]], u, is_active)

\* ORDER BY ABS(julianday(due_date) - julianday(borrow_date)) ASC
Abs(x) == IF x < 0 THEN 0 - x ELSE x

RECURSIVE OrderByDuration(_)
OrderByDuration(rs) ==
    IF rs = <<>> THEN <<>>
    ELSE LET Key(r) == Abs(r.due_date - r.borrow_date)
             least == CHOOSE i \in 1..Len(rs) :
                        /\ \A j \in 1..Len(rs) : Key(rs[i]) <= Key(rs[j])
                        /\ \A j \in 1..(i - 1) : Key(rs[j]) > Key(rs[i])
         IN <<rs[least]>> \o
            OrderByDuration(SubSeq(rs, 1, least - 1) \o SubSeq(rs, least + 1, Len(rs)))

\* a query that does not parse makes fetchall return []
get_transaction_history(tbls, txs, u, is_active) ==
    LET all == HistoryUnionAll(tbls, txs, u, is_active, Len(item_type_keys))
    IN [columns |-> <<"Category", "TransactionId">> \o common_columns
                        \o <<"borrow_date", "due_date", "return_date", "status",
                             "user_name">>,
        results |-> fetchall(IF is_active THEN OrderByDuration(all) ELSE all,
                             IF SqlLiteral(UserText(u)).error
                             THEN "sqlite3.OperationalError" ELSE "none").rows]

\* one sub-select of get_items_added_by_user:  WHERE user_name = '<user_name>'
AddedOf(tbls, T, u) ==
    LET hit == Select(tbls[T.cls_item_type], LAMBDA r :
                    UserText(r.user_name) = SqlLiteral(UserText(u)).value)
    IN [n \in 1..Len(hit) |->
            <<T.cls_item_type>> \o Project(T, hit[n].vals) \o <<hit[n].user_name>>]

RECURSIVE AddedUnionAll(_, _, _)
AddedUnionAll(tbls, u, n) ==
    IF n = 0 THEN <<>>
    ELSE AddedUnionAll(tbls, u, n - 1) \o AddedOf(tbls, item_types[item_type_keys[n]], u)

get_items_added_by_user(tbls, u) ==
    [columns |-> <<"Category">> \o common_columns \o <<"user_name">>,
     results |-> fetchall(AddedUnionAll(tbls, u, Len(item_type_keys)),
                          IF SqlLiteral(UserText(u)).error
                          THEN "sqlite3.OperationalError" ELSE "none").rows]

-----------------------------------------------------------------------------
(* main(): one run of the program after another against the same store.    *)
(* Every action takes the profile I of what may be typed.                  *)

Message(op, msg, args) == [op |-> op, msg |-> msg, args |-> args]

\* the processes that run main() on the same store
Procs == {"main", "peer"}

\* a process that is not between the SELECT and the INSERT of borrow_item
NotBorrowing ==
    [pc |-> "idle", user_name |-> "", item_type |-> <<>>, item_id |-> 0,
     active_borrows |-> <<>>]

Init ==
    /\ users = <<>>
    /\ tables = [n \in TableNames |-> <<>>]
    /\ transactions = <<>>
    /\ today = 1
    /\ pc = "top"
    /\ user_name = ""
    /\ password = ""
    /\ out = Message("main", "welcome", <<>>)
    /\ borrowing = [p \in Procs |-> NotBorrowing]

\* the top-level menu asks again until the choice is "1", "2" or "3"
TopInvalid ==
    /\ pc = "top"
    /\ \E a \in TopChoices :
        /\ a \notin {"1", "2", "3"}
        /\ out' = Message("main", IF isdigit(a) THEN "invalid_number"
                                  ELSE "invalid_input", <<>>)
    /\ UNCHANGED <<borrowing, users, tables, transactions, today, pc, user_name, password>>

\* choice "1": get_fields, then register(); an exception ends the run
Register(I) ==
    /\ pc = "top"
    /\ \E u \in I.user_names, p \in I.passwords, salt \in I.salts :
        LET r == register(users, u, p, salt)
        IN /\ user_name' = u
           /\ password' = p
           /\ users' = r.rows
           /\ IF r.raised
              THEN /\ pc' = "done"
                   /\ out' = Message("register", "error_during_registration", <<>>)
              ELSE /\ pc' = "menu"
                   /\ out' = Message("register", "registered_successfully", <<>>)
    /\ UNCHANGED <<borrowing, tables, transactions, today>>

\* choice "2": get_fields, then login(); False ends the run
Login(I) ==
    /\ pc = "top"
    /\ \E u \in I.user_names, p \in I.passwords :
        /\ user_name' = u
        /\ password' = p
        /\ IF login(users, u, p)
           THEN /\ pc' = "menu"
                /\ out' = Message("login", "welcome_back", <<>>)
           ELSE /\ pc' = "done"
                /\ out' = Message("login", "login_failed", <<>>)
    /\ UNCHANGED <<borrowing, users, tables, transactions, today>>

\* choice "3": get_fields runs as for the other choices, neither branch of
\* `if action == "1" ... elif action == "2"` is taken, and the menu loop starts
TopExit(I) ==
    /\ pc = "top"
    /\ \E u \in I.user_names, p \in I.passwords :
        /\ user_name' = u
        /\ password' = p
    /\ pc' = "menu"
    /\ out' = Message("main", "choose_action", <<>>)
    /\ UNCHANGED <<borrowing, users, tables, transactions, today>>

\* menu choice "1": complete_add_action starts its loop
MenuAdd ==
    /\ pc = "menu"
    /\ pc' = "add"
    /\ out' = Message("add", "select_item_type", <<>>)
    /\ UNCHANGED <<borrowing, users, tables, transactions, today, user_name, password>>

AddExitOption == Cardinality(DOMAIN item_types) + 1

\* complete_add_action: a key of the registry; the fields are read and stored
AddItem(I) ==
    /\ pc = "add"
    /\ ItemCount(tables) < I.max_items
    /\ \E c \in I.item_type_choices :
        /\ isdigit(c)
        /\ int(c) # AddExitOption
        /\ str(int(c)) \in DOMAIN item_types
        /\ LET T == item_types[str(int(c))]
           IN \E typed \in TypedFields(I, T) :
                /\ \A i \in 1..Len(T.fields) : FieldAccepted(T, T.fields[i], typed[i])
                /\ tables' = add_to_inventory(tables, T, typed, user_name)
                /\ out' = Message("add", "successfully_added",
                                  <<T.cls_item_type, typed>>)
    /\ UNCHANGED <<borrowing, users, transactions, today, pc, user_name, password>>

\* complete_add_action: the exit option returns to the main menu
AddExit ==
    /\ pc = "add"
    /\ pc' = "menu"
    /\ out' = Message("add", "returning_to_main_menu", <<>>)
    /\ UNCHANGED <<borrowing, users, tables, transactions, today, user_name, password>>

\* complete_add_action: anything else is asked again
AddInvalid(I) ==
    /\ pc = "add"
    /\ \E c \in I.item_type_choices :
        /\ IF isdigit(c)
           THEN int(c) # AddExitOption /\ str(int(c)) \notin DOMAIN item_types
           ELSE TRUE
        /\ out' = Message("add", IF isdigit(c) THEN "invalid_choice"
                                 ELSE "invalid_input", <<>>)
    /\ UNCHANGED <<borrowing, users, tables, transactions, today, pc, user_name, password>>

-----------------------------------------------------------------------------
(* The search, borrow and return branches of the menu loop.                *)

UnsureOption == Cardinality(DOMAIN item_types) + 1
ExitOption == Cardinality(DOMAIN item_types) + 2

\* menu choices "2", "3", "4": initiate_search_or_borrow_or_return_action starts
MenuSearch ==
    /\ pc = "menu"
    /\ pc' = "select_search"
    /\ out' = Message("search", "select_item_type", <<>>)
    /\ UNCHANGED <<borrowing, users, tables, transactions, today, user_name, password>>

MenuBorrow ==
    /\ pc = "menu"
    /\ pc' = "select_borrow"
    /\ out' = Message("borrow", "select_item_type", <<>>)
    /\ UNCHANGED <<borrowing, users, tables, transactions, today, user_name, password>>

MenuReturn ==
    /\ pc = "menu"
    /\ pc' = "select_return"
    /\ out' = Message("return", "select_item_type", <<>>)
    /\ UNCHANGED <<borrowing, users, tables, transactions, today, user_name, password>>

Selecting == pc \in {"select_search", "select_borrow", "select_return"}

IsSelection(c) ==
    isdigit(c) /\ (int(c) = UnsureOption \/ str(int(c)) \in DOMAIN item_types)

\* the item type selection asks again for anything it does not know
SelectInvalid(I) ==
    /\ Selecting
    /\ \E c \in I.item_type_choices :
        /\ IF isdigit(c) THEN int(c) # ExitOption /\ ~IsSelection(c) ELSE TRUE
        /\ out' = Message("select", IF isdigit(c) THEN "invalid_item_type"
                                    ELSE "invalid_input", <<>>)
    /\ UNCHANGED <<borrowing, users, tables, transactions, today, pc, user_name, password>>

\* the exit option returns two values; main() unpacks three, which raises
\* ValueError, and nothing catches it: the run ends
SelectExit ==
    /\ Selecting
    /\ pc' = "done"
    /\ out' = Message("select", "uncaught_ValueError", <<>>)
    /\ UNCHANGED <<borrowing, users, tables, transactions, today, user_name, password>>

\* whether the query initiate_... runs for the selection c found any row
Found(c, search_word) ==
    IF int(c) = UnsureOption
    THEN IF pc = "select_return"
         THEN get_transaction_history(tables, transactions, user_name, TRUE).results # <<>>
         ELSE search_for_every_item_type(tables, search_word).results # {}
    ELSE IF pc = "select_return"
         THEN get_borrowed_given_item(tables, transactions, item_types[str(int(c))],
                                      user_name, search_word).results # <<>>
         ELSE search_with_auto_complete(tables, item_types[str(int(c))],
                                        search_word).results # <<>>

\* `if results: ... else:` with no row found
SelectNothingFound(I) ==
    /\ Selecting
    /\ \E c \in I.item_type_choices, search_word \in I.search_words :
        /\ IsSelection(c)
        /\ ~Found(c, search_word)
    /\ pc' = "menu"
    /\ out' = Message("select", IF pc = "select_return" THEN "nothing_borrowed_to_return"
                                ELSE "no_items_found", <<>>)
    /\ UNCHANGED <<borrowing, users, tables, transactions, today, user_name, password>>

SaysYes(borrow_choice) == lower(strip(borrow_choice)) \in {<<"y", "e", "s">>, <<"y">>}

\* what the search branch gets from initiate_... for selection c, and displays
Shown(c, search_word) ==
    LET r == IF int(c) = UnsureOption
             THEN search_for_every_item_type(tables, search_word)
             ELSE search_with_auto_complete(tables, item_types[str(int(c))],
                                            search_word)
    IN [item_type_choice |-> int(c), search_word |-> search_word,
        columns |-> r.columns, results |-> r.results]

\* search only: the table is displayed, and the answer to "Would you like to
\* borrow" is not yes
SearchDeclined(I) ==
    /\ pc = "select_search"
    /\ \E c \in I.item_type_choices, search_word \in I.search_words :
        /\ IsSelection(c)
        /\ Found(c, search_word)
        /\ out' = Message("search", "borrowing_cancelled", Shown(c, search_word))
    /\ \E borrow_choice \in BorrowChoices : ~SaysYes(borrow_choice)
    /\ pc' = "menu"
    /\ UNCHANGED <<borrowing, users, tables, transactions, today, user_name, password>>

\* complete_borrow_or_return_action: the category is typed (and lowered) when the
\* selection is no key of the registry, else it is the selected item type's name
ChoiceCategory(c, typed_category) ==
    IF str(int(c)) \notin DOMAIN item_types
    THEN lower(typed_category)
    ELSE TextOf(item_types[str(int(c))].cls_item_type)

\* the day a second datetime.now() of the same call may fall on
LaterReads(I) == {today} \cup {today + 1 : m \in {n \in I.midnight : n /\ today < MaxDay}}

\* complete_borrow_or_return_action(is_return=False), then borrow_item
CompleteBorrow(I) ==
    /\ pc \in {"select_search", "select_borrow"}
    /\ pc = "select_search" => \E borrow_choice \in BorrowChoices : SaysYes(borrow_choice)
    /\ \E c \in I.item_type_choices :
        /\ IsSelection(c)
        /\ \E search_word \in I.search_words : Found(c, search_word)
        /\ \E typed_category \in I.typed_categories, choice_id \in I.item_ids,
              now2 \in LaterReads(I) :
            LET item_type == ChoiceCategory(c, typed_category)
                r == borrow_item(transactions, user_name, item_type, choice_id,
                                 borrow_duration_days, today, now2)
            IN /\ Len(r.transactions) <= I.max_tx
               /\ transactions' = r.transactions
               /\ today' = IF r.msg = "borrowed_successfully" THEN now2 ELSE today
               /\ out' = Message("borrow", r.msg, <<item_type, choice_id>>)
    /\ pc' = "menu"
    /\ UNCHANGED <<borrowing, users, tables, user_name, password>>

\* complete_borrow_or_return_action(is_return=True), then return_item
CompleteReturn(I) ==
    /\ pc = "select_return"
    /\ \E c \in I.item_type_choices :
        /\ IsSelection(c)
        /\ \E search_word \in I.search_words : Found(c, search_word)
    /\ \E choice_id \in I.transaction_ids :
        LET r == return_item(transactions, user_name, choice_id, today)
        IN /\ transactions' = r.transactions
           /\ out' = Message("return", r.msg, <<choice_id>>)
    /\ pc' = "menu"
    /\ UNCHANGED <<borrowing, users, tables, today, user_name, password>>

\* whether the search of the borrow branch, run for selection c, finds a row
SearchFound(c, search_word) ==
    IF int(c) = UnsureOption
    THEN search_for_every_item_type(tables, search_word).results # {}
    ELSE search_with_auto_complete(tables, item_types[str(int(c))],
                                   search_word).results # <<>>

\* what borrow_item holds once its SELECT has returned
Checked(u, item_type, item_id) ==
    [pc |-> "checked", user_name |-> u, item_type |-> item_type, item_id |-> item_id,
     active_borrows |-> ActiveBorrows(transactions, item_type, item_id)]

\* complete_borrow_or_return_action(is_return=False) up to the SELECT of
\* borrow_item, when another process may run before the INSERT
BorrowCheck(I) ==
    /\ pc \in {"select_search", "select_borrow"}
    /\ pc = "select_search" => \E borrow_choice \in BorrowChoices : SaysYes(borrow_choice)
    /\ \E c \in I.item_type_choices :
        /\ IsSelection(c)
        /\ \E search_word \in I.search_words : Found(c, search_word)
        /\ \E typed_category \in I.typed_categories, choice_id \in I.item_ids :
            borrowing' = [borrowing EXCEPT !["main"] =
                Checked(user_name, ChoiceCategory(c, typed_category), choice_id)]
    /\ pc' = "borrow_checked"
    /\ UNCHANGED <<users, tables, transactions, today, user_name, password, out>>

\* borrow_item from `if active_borrows:` on
BorrowInsert(I) ==
    /\ pc = "borrow_checked"
    /\ \E now2 \in LaterReads(I) :
        LET b == borrowing["main"]
            r == borrow_item_insert(b.active_borrows, transactions, b.user_name,
                                    b.item_type, b.item_id, borrow_duration_days,
                                    today, now2)
        IN /\ Len(r.transactions) <= I.max_tx
           /\ transactions' = r.transactions
           /\ today' = IF r.msg = "borrowed_successfully" THEN now2 ELSE today
           /\ out' = Message("borrow", r.msg, <<b.item_type, b.item_id>>)
    /\ borrowing' = [borrowing EXCEPT !["main"] = NotBorrowing]
    /\ pc' = "menu"
    /\ UNCHANGED <<users, tables, user_name, password>>

\* the other process, in the borrow branch of its own menu loop: the same steps
PeerBorrowCheck(I) ==
    /\ borrowing["peer"].pc = "idle"
    /\ \E u \in I.peer_user_names, c \in I.item_type_choices :
        /\ IsSelection(c)
        /\ \E search_word \in I.search_words : SearchFound(c, search_word)
        /\ \E typed_category \in I.typed_categories, choice_id \in I.item_ids :
            borrowing' = [borrowing EXCEPT !["peer"] =
                Checked(u, ChoiceCategory(c, typed_category), choice_id)]
    /\ UNCHANGED <<users, tables, transactions, today, pc, user_name, password, out>>

PeerBorrowInsert(I) ==
    /\ borrowing["peer"].pc = "checked"
    /\ \E now2 \in LaterReads(I) :
        LET b == borrowing["peer"]
            r == borrow_item_insert(b.active_borrows, transactions, b.user_name,
                                    b.item_type, b.item_id, borrow_duration_days,
                                    today, now2)
        IN /\ Len(r.transactions) <= I.max_tx
           /\ transactions' = r.transactions
           /\ today' = IF r.msg = "borrowed_successfully" THEN now2 ELSE today
    /\ borrowing' = [borrowing EXCEPT !["peer"] = NotBorrowing]
    /\ UNCHANGED <<users, tables, pc, user_name, password, out>>

\* menu choice "5", then "1": the items the user has contributed
ViewContributed ==
    /\ pc = "menu"
    /\ LET r == get_items_added_by_user(tables, user_name)
       IN out' = Message("contributed", IF r.results # <<>> THEN "table"
                                        ELSE "nothing_contributed", r)
    /\ UNCHANGED <<borrowing, users, tables, transactions, today, pc, user_name, password>>

\* menu choice "5", then "2": every borrow of the user so far
ViewHistory ==
    /\ pc = "menu"
    /\ LET r == get_transaction_history(tables, transactions, user_name, FALSE)
       IN out' = Message("history", IF r.results # <<>> THEN "table"
                                    ELSE "no_transaction_history", r)
    /\ UNCHANGED <<borrowing, users, tables, transactions, today, pc, user_name, password>>

\* menu choice "5", then "3": what the user is borrowing now
ViewActive ==
    /\ pc = "menu"
    /\ LET r == get_transaction_history(tables, transactions, user_name, TRUE)
       IN out' = Message("active", IF r.results # <<>> THEN "table"
                                   ELSE "no_active_borrowed_items", r)
    /\ UNCHANGED <<borrowing, users, tables, transactions, today, pc, user_name, password>>

\* menu choice "5", then anything else: the loop asks for the next menu choice
ViewNothing ==
    /\ pc = "menu"
    /\ \E add_action \in InventoryChoices : add_action \notin {"1", "2", "3"}
    /\ out' = Message("main", "what_do_you_want_to_do", <<>>)
    /\ UNCHANGED <<borrowing, users, tables, transactions, today, pc, user_name, password>>

\* what a step records of the call of the gateway that failed in it
Gateway(call, error, raised, rows) ==
    [call |-> call, error |-> error, raised |-> raised, rows |-> rows]

\* choice "1" when the INSERT of register() fails for the store: execute raises,
\* register raises again, main() ends the run
RegisterFails(I) ==
    /\ pc = "top"
    /\ \E u \in I.user_names, p \in I.passwords, salt \in I.salts,
          error \in I.write_errors :
        LET r == execute(users, Append(users, [user_name |-> u,
                                              password |-> hashpw(p, salt)]), error)
        IN /\ user_name' = u
           /\ password' = p
           /\ users' = r.store
           /\ pc' = IF r.raised THEN "done" ELSE "menu"
           /\ out' = Message("register", IF r.raised THEN "error_during_registration"
                                          ELSE "registered_successfully",
                              Gateway("execute", error, r.raised, <<>>))
    /\ UNCHANGED <<borrowing, tables, transactions, today>>

\* choice "2" when the SELECT of login() fails for the store: fetchall returns []
LoginReadFails(I) ==
    /\ pc = "top"
    /\ \E u \in I.user_names, p \in I.passwords, error \in I.read_errors :
        LET user == fetchall(Select(users, LAMBDA r : r.user_name = u), error)
        IN /\ user_name' = u
           /\ password' = p
           /\ IF user.raised THEN pc' = "done"
              ELSE IF user.rows # <<>> /\ checkpw(p, user.rows[1].password)
                   THEN pc' = "menu" ELSE pc' = "done"
           /\ out' = Message("login", IF user.raised THEN "uncaught_exception"
                                       ELSE IF pc' = "menu" THEN "welcome_back"
                                            ELSE "login_failed",
                              Gateway("fetchall", error, user.raised, user.rows))
    /\ UNCHANGED <<borrowing, users, tables, transactions, today>>

\* the borrow when the INSERT of borrow_item fails for the store: execute raises,
\* borrow_item prints the error and returns
BorrowWriteFails(I) ==
    /\ pc \in {"select_search", "select_borrow"}
    /\ pc = "select_search" => \E borrow_choice \in BorrowChoices : SaysYes(borrow_choice)
    /\ \E c \in I.item_type_choices :
        /\ IsSelection(c)
        /\ \E search_word \in I.search_words : Found(c, search_word)
        /\ \E typed_category \in I.typed_categories, choice_id \in I.item_ids,
              error \in I.write_errors :
            LET item_type == ChoiceCategory(c, typed_category)
                after == borrow_item(transactions, user_name, item_type, choice_id,
                                     borrow_duration_days, today, today)
                r == execute(transactions, after.transactions, error)
            IN /\ after.msg = "borrowed_successfully"
               /\ transactions' = r.store
               /\ out' = Message("borrow", IF r.raised THEN "error_borrowing_item"
                                            ELSE after.msg,
                                  Gateway("execute", error, r.raised, <<>>))
    /\ pc' = "menu"
    /\ UNCHANGED <<borrowing, users, tables, today, user_name, password>>

\* what the gateway did for the SELECT of borrow_item, and the item it was about
BorrowRead(error, raised, rows, item_type, item_id) ==
    [call |-> "fetchall", error |-> error, raised |-> raised, rows |-> rows,
     item_type |-> item_type, item_id |-> item_id]

\* the borrow when the SELECT of borrow_item fails for the store: active_borrows
\* is what fetchall returns, and the INSERT runs on the ledger as it is
BorrowReadFails(I) ==
    /\ pc \in {"select_search", "select_borrow"}
    /\ pc = "select_search" => \E borrow_choice \in BorrowChoices : SaysYes(borrow_choice)
    /\ \E c \in I.item_type_choices :
        /\ IsSelection(c)
        /\ \E search_word \in I.search_words : Found(c, search_word)
        /\ \E typed_category \in I.typed_categories, choice_id \in I.item_ids,
              error \in I.read_errors :
            LET item_type == ChoiceCategory(c, typed_category)
                active_borrows ==
                    fetchall(ActiveBorrows(transactions, item_type, choice_id), error)
                r == borrow_item_insert(active_borrows.rows, transactions, user_name,
                                        item_type, choice_id, borrow_duration_days,
                                        today, today)
            IN IF active_borrows.raised
               THEN /\ pc' = "done"
                    /\ transactions' = transactions
                    /\ out' = Message("borrow", "uncaught_exception",
                                      BorrowRead(error, TRUE, <<>>, item_type, choice_id))
               ELSE /\ Len(r.transactions) <= I.max_tx
                    /\ pc' = "menu"
                    /\ transactions' = r.transactions
                    /\ out' = Message("borrow", r.msg,
                                      BorrowRead(error, FALSE, active_borrows.rows,
                                                 item_type, choice_id))
    /\ UNCHANGED <<borrowing, users, tables, today, user_name, password>>

\* the return of a typed id beyond every id of the ledger: the SELECT of
\* return_item finds no row, or the id is too large to be bound and what
\* fetchall lets through ends the run
ReturnLargeId(I) ==
    /\ pc = "select_return"
    /\ \E c \in I.item_type_choices :
        /\ IsSelection(c)
        /\ \E search_word \in I.search_words : Found(c, search_word)
    /\ \E typed \in I.large_ids :
        LET transaction == fetchall(<<>>, BindError(typed))
        IN /\ pc' = IF transaction.raised THEN "done" ELSE "menu"
           /\ out' = Message("return", IF transaction.raised THEN "uncaught_exception"
                                        ELSE "no_active_borrow",
                              Gateway("fetchall", BindError(typed), transaction.raised,
                                      transaction.rows))
    /\ UNCHANGED <<borrowing, users, tables, transactions, today, user_name, password>>

\* menu choice "6"
MenuLogout ==
    /\ pc = "menu"
    /\ pc' = "done"
    /\ out' = Message("main", "logged_out", <<>>)
    /\ UNCHANGED <<borrowing, users, tables, transactions, today, user_name, password>>

\* any other menu choice
MenuInvalid ==
    /\ pc = "menu"
    /\ \E a \in MenuChoices : a \notin {"1", "2", "3", "4", "5", "6"}
    /\ out' = Message("main", "invalid_choice", <<>>)
    /\ UNCHANGED <<borrowing, users, tables, transactions, today, pc, user_name, password>>

\* the program is started again on the same library.db
NewRun ==
    /\ pc = "done"
    /\ pc' = "top"
    /\ user_name' = ""
    /\ password' = ""
    /\ out' = Message("main", "welcome", <<>>)
    /\ UNCHANGED <<borrowing, users, tables, transactions, today>>

\* midnight passes between two operations
Tick ==
    /\ today < MaxDay
    /\ today' = today + 1
    /\ UNCHANGED <<borrowing, users, tables, transactions, pc, user_name, password, out>>

\* every step of main() but the borrow
Session(I) ==
    \/ TopInvalid \/ Register(I) \/ Login(I) \/ TopExit(I)
    \/ MenuAdd \/ AddItem(I) \/ AddExit \/ AddInvalid(I)
    \/ MenuSearch \/ MenuBorrow \/ MenuReturn
    \/ SelectInvalid(I) \/ SelectExit \/ SelectNothingFound(I) \/ SearchDeclined(I)
    \/ CompleteReturn(I)
    \/ MenuLogout \/ MenuInvalid
    \/ NewRun

\* one process: nothing runs between the SELECT and the INSERT of borrow_item
Run(I) == Session(I) \/ CompleteBorrow(I)

\* the ledger: two users borrow and return, the clock stands still
Next == Run(LedgerInputs)

Spec == Init /\ [][Next]_vars

\* the accounts: any password, any salt
NextAuth == Run(AuthInputs)

SpecAuth == Init /\ [][NextAuth]_vars

\* the dates: one user, and midnight may pass between and within operations
NextClock == Run(ClockInputs) \/ Tick

SpecClock == Init /\ [][NextClock]_vars

\* the queries: the personal inventory, and what the searches find
NextQuery ==
    \/ Run(QueryInputs)
    \/ ViewContributed \/ ViewHistory \/ ViewActive \/ ViewNothing

SpecQuery == Init /\ [][NextQuery]_vars

\* adding items
NextAdd == Run(AddInputs)

SpecAdd == Init /\ [][NextAdd]_vars

\* the store fails, or cannot bind what was typed
NextFault ==
    \/ Run(FaultInputs)
    \/ RegisterFails(FaultInputs) \/ LoginReadFails(FaultInputs)
    \/ BorrowWriteFails(FaultInputs) \/ ReturnLargeId(FaultInputs)
    \/ BorrowReadFails(FaultInputs)

SpecFault == Init /\ [][NextFault]_vars

\* two processes on the same store: the steps of borrow_item interleave
NextRace ==
    \/ Session(RaceInputs)
    \/ BorrowCheck(RaceInputs) \/ BorrowInsert(RaceInputs)
    \/ PeerBorrowCheck(RaceInputs) \/ PeerBorrowInsert(RaceInputs)

SpecRace == Init /\ [][NextRace]_vars

-----------------------------------------------------------------------------
(* What the steps of a behaviour are, for the properties below.            *)

\* a step in which borrow_item ran: out' holds its message and (item_type, item_id)
BorrowStep ==
    pc \in {"select_search", "select_borrow"} /\ pc' = "menu" /\ out'.op = "borrow"

\* a step in which return_item ran: out' holds its message and the transaction id
ReturnStep == pc = "select_return" /\ pc' = "menu" /\ out'.op = "return"

SamePair(t, item_type, item_id) == t.item_type = item_type /\ t.item_id = item_id

\* the item (item_type, item_id) has a row with status borrowed in txs
IsBorrowed(txs, item_type, item_id) ==
    \E i \in 1..Len(txs) :
        SamePair(txs[i], item_type, item_id) /\ txs[i].status = "borrowed"

Ids(txs) == {txs[i].id : i \in 1..Len(txs)}

-----------------------------------------------------------------------------
C3_SuccessfulBorrowAddsOneRow ==
    [][(BorrowStep /\ out'.msg = "borrowed_successfully")
          => /\ Len(transactions') = Len(transactions) + 1
             /\ SubSeq(transactions', 1, Len(transactions)) = transactions
             /\ LET new == transactions'[Len(transactions')]
                IN /\ new.id \notin Ids(transactions)
                   /\ new.user_name = user_name
                   /\ SamePair(new, out'.args[1], out'.args[2])
                   /\ new.borrow_date = today
                   /\ new.due_date = new.borrow_date + borrow_duration_days
                   /\ new.return_date = <<>>
                   /\ new.status = "borrowed"]_vars

C5_ReturnChangesOnlyItsRow ==
    [][(ReturnStep /\ out'.msg = "returned_successfully")
          => /\ Len(transactions') = Len(transactions)
             /\ \A i \in 1..Len(transactions) :
                    transactions'[i] =
                        IF transactions[i].id = out'.args[1]
                        THEN [transactions[i] EXCEPT !.status = "returned",
                                                     !.return_date = <<today>>]
                        ELSE transactions[i]
             /\ tables' = tables
             /\ users' = users]_vars

\* a return, on a later day than the borrow, with another row in the ledger
C5_Witness ==
    /\ out.op = "return" /\ out.msg = "returned_successfully"
    /\ Len(transactions) > 1
    /\ \E i \in 1..Len(transactions) :
        /\ transactions[i].id = out.args[1]
        /\ transactions[i].status = "returned"
        /\ transactions[i].return_date = <<today>>
        /\ transactions[i].borrow_date < today

C7_ReturnedIsTerminal ==
    [][/\ Len(transactions') >= Len(transactions)
       /\ \A i \in 1..Len(transactions) :
            /\ transactions'[i].id = transactions[i].id
            /\ transactions[i].status = "returned" => transactions'[i] = transactions[i]
            /\ transactions'[i] # transactions[i] =>
                  (transactions[i].status = "borrowed"
                   /\ transactions'[i].status = "returned")]_vars

\* a return of a row that was returned on an earlier day has just been refused
C7_Witness ==
    /\ out.op = "return" /\ out.msg = "no_active_borrow"
    /\ \E i \in 1..Len(transactions) :
        /\ transactions[i].id = out.args[1]
        /\ transactions[i].status = "returned"
        /\ transactions[i].user_name = user_name
        /\ transactions[i].return_date # <<today>>

-----------------------------------------------------------------------------
(* The queries.                                                            *)

\* the positions of the ledger rows of user u (all, or those still borrowed)
RowsOfUser(txs, u, active) ==
    {i \in 1..Len(txs) :
        txs[i].user_name = u /\ (active => txs[i].status = "borrowed")}

\* the history rs has exactly one row for each ledger row of u, with the tag of
\* its category and its transaction id, and no other row
IsHistoryOf(rs, txs, u, active) ==
    /\ Len(rs) = Cardinality(RowsOfUser(txs, u, active))
    /\ \A i \in RowsOfUser(txs, u, active) :
            \E n \in 1..Len(rs) :
                /\ rs[n].TransactionId = txs[i].id
                /\ TextOf(rs[n].Category) = txs[i].item_type

(* C13: the active history of a user has exactly one row for each of the   *)
(* user's transactions with status borrowed and no other row; the full     *)
(* history has exactly one row for each of the user's transactions; each   *)
(* row carries the category tag and the id of its transaction.             *)
C13_HistoryRowPerTransaction ==
    /\ out.op = "active"
            => IsHistoryOf(out.args.results, transactions, user_name, TRUE)
    /\ out.op = "history"
            => IsHistoryOf(out.args.results, transactions, user_name, FALSE)

\* the text value holds the text term, letters compared without case
Contains(value, term) ==
    /\ value # NULL
    /\ \E k \in 0..(Len(value) - Len(term)) :
            lower(SubSeq(value, k + 1, k + Len(term))) = lower(term)

\* the row of the unified view for the item r of item type T: the columns that
\* are fields of T hold r's values, the others are null
UnifiedRow(T, r) ==
    <<T.cls_item_type, r.id>> \o
    [i \in 1..Len(common_columns) |->
        IF \E f \in 1..Len(T.fields) : T.fields[f] = common_columns[i]
        THEN r.vals[CHOOSE f \in 1..Len(T.fields) : T.fields[f] = common_columns[i]]
        ELSE NULL]

\* the items of every table that hold term in one of their own fields
Matching(tbls, term) ==
    {<<k, i>> \in (DOMAIN item_types) \X (1..(MaxItems + 1)) :
        /\ i <= Len(tbls[item_types[k].cls_item_type])
        /\ \E f \in 1..Len(item_types[k].fields) :
                Contains(tbls[item_types[k].cls_item_type][i].vals[f], term)}

\* the last step displayed the table of a search
SearchShown == out.op = "search" /\ out.msg = "borrowing_cancelled"

(* C14: the search over every item type returns, as a set, the unified row *)
(* of every item that holds the search word, letters compared without      *)
(* case, in one of the fields of its own item type, and no other row; the  *)
(* columns that are not fields of the row's item type are null.            *)
C14_SearchAllFindsSubstring ==
    (SearchShown /\ out.args.item_type_choice = UnsureOption)
        => out.args.results =
              {UnifiedRow(item_types[m[1]], tables[item_types[m[1]].cls_item_type][m[2]]) :
                  m \in Matching(tables, out.args.search_word)}

(* C19: the search of one item type returns, with the column list          *)
(* (Category, id, then the fields of the item type), rows that hold the    *)
(* item type's name, the id and the fields of a row of its table and       *)
(* nothing else, so that every row is as long as the column list.          *)
C19_SearchOneRowsMatchColumns ==
    (SearchShown /\ out.args.item_type_choice # UnsureOption)
        => LET T == item_types[str(out.args.item_type_choice)]
               results == out.args.results
           IN /\ out.args.columns = <<"Category", "id">> \o T.fields
              /\ \A n \in 1..Len(results) :
                    /\ Len(results[n]) = Len(out.args.columns)
                    /\ \E i \in 1..Len(tables[T.cls_item_type]) :
                            results[n] = <<T.cls_item_type,
                                           tables[T.cls_item_type][i].id>>
                                         \o tables[T.cls_item_type][i].vals

\* the items of every table whose owner is u
OwnedBy(tbls, u) ==
    {<<k, i>> \in (DOMAIN item_types) \X (1..(MaxItems + 1)) :
        /\ i <= Len(tbls[item_types[k].cls_item_type])
        /\ tbls[item_types[k].cls_item_type][i].user_name = u}

\* the row of the contributed view for the item r of item type T
ContributedRow(T, r) ==
    <<T.cls_item_type>> \o SubSeq(UnifiedRow(T, r), 3, Len(common_columns) + 2)
        \o <<r.user_name>>

(* C15: the items a user has contributed are listed with exactly one row   *)
(* for each item record whose owner is the user and no row of another      *)
(* owner; each row has the tag of its item type and the unified columns,   *)
(* null where a column is not a field of that item type.                   *)
C15_ContributedRowPerOwnedItem ==
    out.op = "contributed"
        => LET rs == out.args.results
               mine == OwnedBy(tables, user_name)
           IN /\ Len(rs) = Cardinality(mine)
              /\ \A m \in mine :
                    \E n \in 1..Len(rs) :
                        rs[n] = ContributedRow(item_types[m[1]],
                                    tables[item_types[m[1]].cls_item_type][m[2]])
              /\ \A n \in 1..Len(rs) :
                    /\ rs[n][Len(rs[n])] = user_name
                    /\ Len(rs[n]) = Len(out.args.columns)

\* the position at which x first occurs in seq
FirstAt(seq, x) ==
    CHOOSE i \in 1..Len(seq) : seq[i] = x /\ \A j \in 1..(i - 1) : seq[j] # x

\* u holds every element of all exactly once, in the order of first occurrence
IsOrderedUnion(u, all) ==
    /\ SeqToSet(u) = SeqToSet(all)
    /\ \A i, j \in 1..Len(u) : i # j => u[i] # u[j]
    /\ \A i, j \in 1..Len(u) : i < j => FirstAt(all, u[i]) < FirstAt(all, u[j])

\* the union of the field lists of each leading part of the registry
UnionOfEveryPrefix ==
    \A n \in 0..Len(item_type_keys) :
        /\ IsOrderedUnion(Dedup(AllFields(n)), AllFields(n))
        /\ Dedup(Dedup(AllFields(n))) = Dedup(AllFields(n))

(* C16: the common columns hold every field name of every item type        *)
(* exactly once, in the order of first appearance when the registry is     *)
(* scanned in its order and each field list in its own; the three queries  *)
(* that compute them display the same sequence; and computing the union of *)
(* the common columns again changes nothing.  The same holds for every     *)
(* leading part of the registry.                                           *)
C16_CommonColumnsOrderedUnion ==
    /\ UnionOfEveryPrefix
    /\ common_columns = Dedup(AllFields(Len(item_type_keys)))
    /\ (SearchShown /\ out.args.item_type_choice = UnsureOption)
            => out.args.columns = <<"Category", "id">> \o common_columns
    /\ out.op = "contributed"
            => out.args.columns = <<"Category">> \o common_columns \o <<"user_name">>
    /\ out.op \in {"history", "active"}
            => SubSeq(out.args.columns, 3, Len(common_columns) + 2) = common_columns

\* the search over every item type has displayed the common columns: a column
\* that several item types share, and one that only the last item type has
C16_Witness ==
    /\ SearchShown /\ out.args.item_type_choice = UnsureOption
    /\ \E i, j \in 3..Len(out.args.columns) :
        /\ i < j
        /\ out.args.columns[i] = "author"
        /\ out.args.columns[j] = "keywords"
        /\ "author" \in SeqToSet(Book.fields) \cap SeqToSet(Manga.fields)
        /\ "keywords" \notin SeqToSet(AllFields(Len(item_type_keys) - 1))

-----------------------------------------------------------------------------
(* Two processes.                                                          *)

\* the item type whose cls_item_type reads as the text t, if there is one
CategoryOf(t) == {n \in TableNames : TextOf(n) = t}

(* C12: every row of the ledger names a registered item type and the id of *)
(* an item that the table of that item type holds.                         *)
C12_LedgerRowsReferToItems ==
    \A i \in 1..Len(transactions) :
        \E n \in CategoryOf(transactions[i].item_type) :
            ItemById(tables[n], transactions[i].item_id) # <<>>

\* a step in which process p runs borrow_item from `if active_borrows:` on
InsertStep(p) == borrowing[p].pc = "checked" /\ borrowing'[p].pc = "idle"

(* C11: the SELECT and the INSERT of borrow_item are separate steps, and the *)
(* INSERT goes by what the SELECT returned: a process whose SELECT found no *)
(* borrowed row appends its borrowed row whatever the ledger holds by then, *)
(* so two processes that both ran the SELECT first both insert.            *)
C11_InsertGoesByStaleCheck ==
    [][\A p \in Procs :
        (InsertStep(p) /\ borrowing[p].active_borrows = <<>>)
            => /\ Len(transactions') = Len(transactions) + 1
               /\ SubSeq(transactions', 1, Len(transactions)) = transactions
               /\ LET new == transactions'[Len(transactions')]
                  IN /\ SamePair(new, borrowing[p].item_type, borrowing[p].item_id)
                     /\ new.user_name = borrowing[p].user_name
                     /\ new.status = "borrowed"]_vars

\* both inserts are done: the pair has two borrowed rows, one of each process
C11_Witness ==
    /\ \A p \in Procs : borrowing[p].pc = "idle"
    /\ \E i, j \in 1..Len(transactions) :
        /\ i # j
        /\ SamePair(transactions[j], transactions[i].item_type, transactions[i].item_id)
        /\ transactions[i].status = "borrowed"
        /\ transactions[j].status = "borrowed"
        /\ transactions[i].user_name \in RaceInputs.user_names
        /\ transactions[j].user_name \in RaceInputs.peer_user_names

-----------------------------------------------------------------------------
(* The accounts.                                                           *)

\* a step in which register() ran
RegisterStep == pc = "top" /\ out'.op = "register"

\* a step in which login() ran
LoginStep == pc = "top" /\ out'.op = "login"

IsRegistered(tbl, u) == \E i \in 1..Len(tbl) : tbl[i].user_name = u

(* C8: register for a user_name the users table already holds fails: the   *)
(* table is unchanged, the run ends without reaching the menu, and no two  *)
(* rows of the table ever share a user_name.                               *)
C8_DuplicateRegisterFails ==
    [][/\ (RegisterStep /\ IsRegistered(users, user_name'))
            => /\ users' = users
               /\ pc' = "done"
               /\ out'.msg = "error_during_registration"
       /\ \A i, j \in 1..Len(users') :
            i # j => users'[i].user_name # users'[j].user_name]_vars

\* a refused registration whose password is not the one of the existing account
C8_Witness ==
    /\ out.op = "register" /\ out.msg = "error_during_registration"
    /\ pc = "done"
    /\ IsRegistered(users, user_name)
    /\ ~login(users, user_name, password)

C10_MenuOnlyAfterAuthentication ==
    [][/\ (pc = "top" /\ pc' # "top")
            => IF out'.msg \in {"registered_successfully", "welcome_back"}
               THEN pc' = "menu"
               ELSE pc' = "done"
       /\ pc' \notin {"top", "done"} => IsRegistered(users', user_name')]_vars

-----------------------------------------------------------------------------
(* The gateway.                                                            *)

\* a step in which a call of the gateway met an error
GatewayFailed(call) ==
    /\ out'.msg \in {"error_during_registration", "error_borrowing_item",
                     "login_failed", "no_active_borrow", "uncaught_exception"}
    /\ out'.args # <<>>
    /\ DOMAIN out'.args = {"call", "error", "raised", "rows"}
    /\ out'.args.call = call
    /\ out'.args.error # "none"

(* C17: an execute that fails raises to its caller and leaves the store as *)
(* it was; an execute that succeeds leaves its change in the store, where  *)
(* the next run finds it; a fetchall that fails never raises and returns   *)
(* the empty sequence.                                                     *)
C17_ExecuteRaisesFetchallSwallows ==
    [][/\ GatewayFailed("execute")
            => /\ out'.args.raised
               /\ <<users', tables', transactions'>> = <<users, tables, transactions>>
       /\ (RegisterStep /\ out'.msg = "registered_successfully")
            => /\ IsRegistered(users', user_name')
               /\ Len(users') = Len(users) + 1
       /\ (pc = "done" /\ pc' = "top")
            => <<users', tables', transactions'>> = <<users, tables, transactions>>
       /\ GatewayFailed("fetchall")
            => /\ ~out'.args.raised
               /\ out'.args.rows = <<>>
               /\ pc' # "done" \/ out'.msg = "login_failed"]_vars

-----------------------------------------------------------------------------
(* Adding items.                                                           *)

\* text has the shape YYYY-MM-DD and names a day of the calendar
IsDateOfFormat(text) ==
    /\ Len(text) = 10
    /\ text[5] = "-" /\ text[8] = "-"
    /\ AllDigits(SubSeq(text, 1, 4) \o SubSeq(text, 6, 7) \o SubSeq(text, 9, 10))
    /\ LET y == NumberOf(SubSeq(text, 1, 4))
           m == NumberOf(SubSeq(text, 6, 7))
           d == NumberOf(SubSeq(text, 9, 10))
       IN /\ y >= 1
          /\ m >= 1 /\ m <= 12
          /\ d >= 1
          /\ d <= (CASE m \in {1, 3, 5, 7, 8, 10, 12} -> 31
                     [] m \in {4, 6, 9, 11} -> 30
                     [] OTHER -> IF (y % 4 = 0 /\ y % 100 # 0) \/ y % 400 = 0
                                 THEN 29 ELSE 28)

(* C18: every item record of every table has a name that is not empty      *)
(* after trimming blanks and, where its item type has a date field, a date *)
(* that is null or a day in the format YYYY-MM-DD; what is typed and not   *)
(* accepted is never stored.                                               *)
C18_StoredNameAndDateValid ==
    \A k \in DOMAIN item_types :
        LET T == item_types[k]
            rows == tables[T.cls_item_type]
        IN \A n \in 1..Len(rows), f \in 1..Len(T.fields) :
            /\ T.fields[f] = "name" => strip(rows[n].vals[f]) # <<>>
            /\ T.fields[f] = "date" =>
                    (rows[n].vals[f] = NULL \/ IsDateOfFormat(rows[n].vals[f]))

\* a book was added with a name typed with blanks around it and a date typed
\* without the leading zeros, which is stored in the format
C18_Witness ==
    /\ out.op = "add" /\ out.msg = "successfully_added"
    /\ out.args[1] = "book"
    /\ out.args[2][1] = <<" ", "D", " ">>
    /\ out.args[2][4] = <<"2", "0", "1", "4", "-", "1", "-", "5">>
    /\ \E n \in 1..Len(tables["book"]) :
        /\ tables["book"][n].vals[1] = <<" ", "D", " ">>
        /\ tables["book"][n].vals[4] =
                <<"2", "0", "1", "4", "-", "0", "1", "-", "0", "5">>

-----------------------------------------------------------------------------
(* Leaving the item type selection.                                        *)

(* C20: when the exit option is chosen in the item type selection of the   *)
(* search, borrow or return action, the run goes back to the main menu and *)
(* reads the next choice there; the user stays logged in and the ledger    *)
(* and the item tables are as they were.                                   *)
C20_ExitReturnsToMenu ==
    [][(Selecting /\ SelectExit)
            => (/\ pc' = "menu"
                /\ user_name' = user_name
                /\ transactions' = transactions
                /\ tables' = tables)]_vars

-----------------------------------------------------------------------------
(* The availability read of a borrow fails.                                *)

\* m is the message of a borrow whose SELECT failed for the store
IsFailedBorrowRead(m) ==
    /\ m.op = "borrow"
    /\ m.msg \in {"borrowed_successfully", "currently_borrowed", "uncaught_exception"}
    /\ m.args # <<>>
    /\ DOMAIN m.args = {"call", "error", "raised", "rows", "item_type", "item_id"}
    /\ m.args.error # "none"

(* C21: when the SELECT by which borrow tests whether the item is free     *)
(* fails for the store, the failure is swallowed and the test sees the     *)
(* empty sequence: the borrow is not stopped and is not told apart from a  *)
(* borrow of a free item, whatever the ledger holds; it appends one row    *)
(* with status borrowed for the user and the item and reports success.     *)
C21_FailedReadBorrowsAnyway ==
    [][(pc \in {"select_search", "select_borrow"} /\ IsFailedBorrowRead(out'))
            => /\ ~out'.args.raised
               /\ out'.args.rows = <<>>
               /\ pc' = "menu"
               /\ out'.msg = "borrowed_successfully"
               /\ Len(transactions') = Len(transactions) + 1
               /\ SubSeq(transactions', 1, Len(transactions)) = transactions
               /\ LET t == transactions'[Len(transactions')]
                  IN /\ t.status = "borrowed"
                     /\ t.user_name = user_name
                     /\ t.item_type = out'.args.item_type
                     /\ t.item_id = out'.args.item_id]_vars

\* the read failed for an item that was on loan, and the item now has two
\* borrowed rows
C21_Witness ==
    /\ IsFailedBorrowRead(out)
    /\ out.msg = "borrowed_successfully"
    /\ Cardinality({i \in 1..Len(transactions) :
            /\ transactions[i].status = "borrowed"
            /\ transactions[i].item_type = out.args.item_type
            /\ transactions[i].item_id = out.args.item_id}) = 2

====
